---- MODULE Spec2Model ----
(***************************************************************************)
(* Model of static/app/utils/voiceAssistParser.ts: the tokenizer           *)
(* normalizeInput, the FuzzyCommand matcher and the dispatcher parse.      *)
(*                                                                         *)
(* A string is a sequence of one-character strings.  A value that may be   *)
(* null is a sequence of length at most one: <<>> is null, <<v>> is v.     *)
(* A confidence is an integer level 0..MaxConf standing for a number in    *)
(* [0,1]; only the order and equality of confidences are used by the code. *)
(***************************************************************************)
EXTENDS Integers, Sequences, FiniteSets, TLC

\* ---- bounds of the model ----
MaxStrLen == 3
MaxConf == 2
MaxAlts == 3

VARIABLES
    \* FuzzyCommand.match applied to one input
    ctor,       \* the constructor's arguments
    cmd,        \* the constructed FuzzyCommand
    input,      \* the SpeechRecognitionAlternative given to match
    tokens,     \* match's local `tokens`
    result,     \* match's return value
    retokens,   \* normalizeInput of the single-space join of `tokens`
    mpc,        \* position: "start", "matched", "renormalized"
    \* parse
    vals, commands, altIdx, commandIdx, highestAlternative, highestMatch, pc

matchVars == <<ctor, cmd, input, tokens, result, retokens, mpc>>
parseVars == <<vals, commands, altIdx, commandIdx, highestAlternative,
               highestMatch, pc>>
vars == <<ctor, cmd, input, tokens, result, retokens, mpc,
          vals, commands, altIdx, commandIdx, highestAlternative,
          highestMatch, pc>>

\* ---- nullable values ----
None == <<>>
Some(v) == <<v>>
Get(o) == o[1]

Range(s) == {s[i] : i \in 1..Len(s)}

\* ---- strings ----
SP == " "
Separators == {" ", ",", ";", ".", ":"}

\* val.toLowerCase(), on the characters the model draws
LowerChar(ch) == IF ch = "A" THEN "a" ELSE IF ch = "B" THEN "b" ELSE ch
toLowerCase(val) == [i \in 1..Len(val) |-> LowerChar(val[i])]

RECURSIVE SkipSeparators(_)
SkipSeparators(val) ==
    IF val # <<>> /\ Head(val) \in Separators
    THEN SkipSeparators(Tail(val))
    ELSE val

\* the replacement without the +: every separator character becomes a space
CollapseSeparatorsEach(val) ==
    [i \in 1..Len(val) |-> IF val[i] \in Separators THEN SP ELSE val[i]]

\* val.replace(/[ ,;.:]+/g, ' ')
RECURSIVE CollapseSeparators(_)
CollapseSeparators(val) ==
    IF val = <<>> THEN <<>>
    ELSE IF Head(val) \in Separators
         THEN <<SP>> \o CollapseSeparators(SkipSeparators(val))
         ELSE <<Head(val)>> \o CollapseSeparators(Tail(val))

\* if (val.length > 0 && val[0] === ' ') val = val.substring(1)
StripLeading(val) ==
    IF Len(val) > 0 /\ val[1] = SP THEN SubSeq(val, 2, Len(val)) ELSE val

\* if (val.length > 0 && val[val.length - 1] === ' ') val = val.substring(0, val.length - 1)
StripTrailing(val) ==
    IF Len(val) > 0 /\ val[Len(val)] = SP THEN SubSeq(val, 1, Len(val) - 1) ELSE val

\* val.split(' '): the pieces between the spaces; "" splits to [""]
RECURSIVE Split(_)
Split(val) ==
    IF \E i \in 1..Len(val) : val[i] = SP
    THEN LET i == CHOOSE k \in 1..Len(val) :
                     val[k] = SP /\ \A m \in 1..(k - 1) : val[m] # SP
         IN  <<SubSeq(val, 1, i - 1)>> \o Split(SubSeq(val, i + 1, Len(val)))
    ELSE <<val>>

\* the tokenizer with the trimming done before the separator runs are collapsed
normalizeInputTrimFirst(val) ==
    Split(CollapseSeparators(StripTrailing(StripLeading(toLowerCase(val)))))

normalizeInput(val) ==
    Split(StripTrailing(StripLeading(CollapseSeparators(toLowerCase(val)))))

\* ---- words and transcripts used as inputs ----
W_a == <<"a">>
W_b == <<"b">>
W_empty == <<>>
W_x == <<"x">>
W_open == <<"o", "p", "e", "n">>
W_close == <<"c", "l", "o", "s", "e">>
W_settings == <<"s", "e", "t", "t", "i", "n", "g", "s">>
W_please == <<"p", "l", "e", "a", "s", "e">>
W_now == <<"n", "o", "w">>
W_constructor == <<"c", "o", "n", "s", "t", "r", "u", "c", "t", "o", "r">>
W_proto == <<"_", "_", "p", "r", "o", "t", "o", "_", "_">>

T_openSettings == W_open \o <<SP>> \o W_settings
T_closeSettings == W_close \o <<SP>> \o W_settings
T_settingsOpen == W_settings \o <<SP>> \o W_open
T_pleaseOpenSettingsNow ==
    W_please \o <<SP>> \o W_open \o <<SP>> \o W_settings \o <<SP>> \o W_now

\* ---- Dictionary<boolean> ----
\* Keys every object literal {} inherits from Object.prototype whose value is
\* truthy and whose name survives toLowerCase.
ObjectPrototypeKeys == {W_constructor, W_proto}

\* this.verbs = {}; for (...) this.verbs[verbs[idx]] = true : the own keys
MakeDictionary(list) == Range(list) \ {W_proto}

\* the truthiness of dict[key]
Truthy(dict, key) == key \in dict \/ key \in ObjectPrototypeKeys

\* new FuzzyCommand(id, verbs, validAttributes, verbFirst)
FuzzyCommand(id, verbs, validAttributes, verbFirst) ==
    [id |-> id,
     verbFirst |-> verbFirst,
     verbs |-> MakeDictionary(verbs),
     attributes |-> MakeDictionary(validAttributes)]

\* the loop of match from index idx on, returning the final verb and args
RECURSIVE MatchScan(_, _, _, _, _)
MatchScan(c, toks, idx, verb, args) ==
    IF idx > Len(toks) THEN [verb |-> verb, args |-> args]
    ELSE LET token == toks[idx]
             verb1 == IF verb = None /\ Truthy(c.verbs, token)
                      THEN Some(token) ELSE verb
             args1 == IF (verb1 # None \/ ~c.verbFirst) /\ Truthy(c.attributes, token)
                      THEN Append(args, token) ELSE args
         IN  MatchScan(c, toks, idx + 1, verb1, args1)

\* a result whose confidence is computed from how many attributes matched
MatchResultByQuality(c, alt, args) ==
    [id |-> c.id, confidence |-> IF Len(args) > MaxConf THEN MaxConf ELSE Len(args)]

\* return {id: this.id, confidence: input.confidence}
MatchResult(c, alt, args) == [id |-> c.id, confidence |-> alt.confidence]

\* match after tokenization: the loop over toks and the final test
matchTokens(c, alt, toks) ==
    LET scan == MatchScan(c, toks, 1, None, <<>>)
    IN  IF scan.verb # None /\ Len(scan.args) > 0
        THEN Some(MatchResult(c, alt, scan.args))
        ELSE None

\* FuzzyCommand.match(input)
match(c, alt) == matchTokens(c, alt, normalizeInput(alt.transcript))

\* ---- inputs of the match specification ----
Alphabet == {"a", "b", "A", " ", ",", "\t"}

RECURSIVE Strings(_)
Strings(n) ==
    IF n = 0 THEN {<<>>}
    ELSE LET shorter == Strings(n - 1)
         IN  shorter \cup {Append(s, ch) : s \in {t \in shorter : Len(t) = n - 1},
                                            ch \in Alphabet}

SampleTranscripts ==
    {T_openSettings, T_settingsOpen, T_pleaseOpenSettingsNow, W_constructor,
     W_settings \o <<SP>> \o W_constructor}

Transcripts == Strings(MaxStrLen) \cup SampleTranscripts
Confidences == 0..MaxConf
Alternatives == [transcript : Transcripts, confidence : Confidences]

VerbLists == {<<>>, <<W_a>>, <<W_a, W_b>>, <<W_empty>>, <<W_open>>}
AttributeLists == {<<>>, <<W_b>>, <<W_a>>, <<W_empty>>, <<W_settings>>}
CtorArgs == [id : {"OPEN", "CLOSE"}, verbs : VerbLists,
             validAttributes : AttributeLists, verbFirst : BOOLEAN]

Construct(a) == FuzzyCommand(a.id, a.verbs, a.validAttributes, a.verbFirst)

\* tokens joined with single spaces
RECURSIVE Join(_)
Join(toks) ==
    IF toks = <<>> THEN <<>>
    ELSE IF Len(toks) = 1 THEN toks[1]
    ELSE toks[1] \o <<SP>> \o Join(Tail(toks))

\* parse is idle while match is exercised
ParseIdle ==
    /\ vals = <<>> /\ commands = <<>> /\ altIdx = 0 /\ commandIdx = 0
    /\ highestAlternative = None /\ highestMatch = None /\ pc = "idle"

InitMatch ==
    /\ ctor \in CtorArgs
    /\ cmd = Construct(ctor)
    /\ input \in Alternatives
    /\ tokens = <<>> /\ result = None /\ retokens = <<>>
    /\ mpc = "start"
    /\ ParseIdle

\* cmd.match(input)
Match ==
    /\ mpc = "start"
    /\ tokens' = normalizeInput(input.transcript)
    /\ result' = match(cmd, input)
    /\ mpc' = "matched"
    /\ UNCHANGED <<ctor, cmd, input, retokens>>
    /\ UNCHANGED parseVars

\* normalizeInput applied to the canonical join of the tokens
Renormalize ==
    /\ mpc = "matched"
    /\ retokens' = normalizeInput(Join(tokens))
    /\ mpc' = "renormalized"
    /\ UNCHANGED <<ctor, cmd, input, tokens, result>>
    /\ UNCHANGED parseVars

NextMatch == Match \/ Renormalize

SpecMatch == InitMatch /\ [][NextMatch]_vars

\* ---- parse ----
\* highestMatch === null && highestAlternative.confidence < alternative.confidence,
\* without the test that no match has been found
PromotesFallbackUnguarded(hm, ha, alternative) ==
    Get(ha).confidence < alternative.confidence

\* the same test letting an equal confidence promote
PromotesFallbackOnTie(hm, ha, alternative) ==
    hm = None /\ Get(ha).confidence <= alternative.confidence

\* highestMatch === null && highestAlternative.confidence < alternative.confidence
PromotesFallback(hm, ha, alternative) ==
    hm = None /\ Get(ha).confidence < alternative.confidence

\* highestMatch.confidence < alternative.confidence, with the comparison reversed
ReplacesMatchReversed(hm, alternative) ==
    Get(hm).confidence > alternative.confidence

\* the same test letting an equal confidence replace
ReplacesMatchOnTie(hm, alternative) ==
    Get(hm).confidence <= alternative.confidence

\* highestMatch.confidence < alternative.confidence
ReplacesMatch(hm, alternative) ==
    Get(hm).confidence < alternative.confidence

ParseTranscripts == {T_openSettings, T_closeSettings, W_x}
ParseAlternatives == [transcript : ParseTranscripts, confidence : Confidences]

OPEN == FuzzyCommand("OPEN", <<W_open>>, <<W_settings>>, TRUE)
CLOSE == FuzzyCommand("CLOSE", <<W_close>>, <<W_settings>>, TRUE)
ANY == FuzzyCommand("ANY", <<W_open, W_close>>, <<W_settings>>, FALSE)
CommandLists ==
    {<<>>, <<OPEN>>, <<OPEN, CLOSE>>, <<OPEN, ANY>>, <<ANY, CLOSE>>}

RECURSIVE SeqsUpTo(_, _)
SeqsUpTo(S, n) ==
    IF n = 0 THEN {<<>>}
    ELSE LET shorter == SeqsUpTo(S, n - 1)
         IN  shorter \cup {Append(s, e) : s \in {t \in shorter : Len(t) = n - 1},
                                           e \in S}

\* match is idle while parse is exercised
MatchIdle ==
    /\ ctor = [id |-> "OPEN", verbs |-> <<>>, validAttributes |-> <<>>,
               verbFirst |-> TRUE]
    /\ cmd = Construct(ctor)
    /\ input = [transcript |-> <<>>, confidence |-> 0]
    /\ tokens = <<>> /\ result = None /\ retokens = <<>>
    /\ mpc = "idle"

\* parse(vals, commands) entered: both selections null, altIdx = 0
Init ==
    /\ vals \in SeqsUpTo(ParseAlternatives, MaxAlts)
    /\ commands \in CommandLists
    /\ altIdx = 0
    /\ commandIdx = 0
    /\ highestAlternative = None
    /\ highestMatch = None
    /\ pc = "alt"
    /\ MatchIdle

\* the head of the outer loop body: the fallback candidate
AltStep ==
    /\ pc = "alt"
    /\ altIdx < Len(vals)
    /\ LET alternative == vals[altIdx + 1]
           ha1 == IF highestAlternative = None THEN Some(alternative)
                  ELSE highestAlternative
       IN  highestAlternative' =
               IF PromotesFallback(highestMatch, ha1, alternative)
               THEN Some(alternative) ELSE ha1
    /\ commandIdx' = 0
    /\ pc' = "cmd"
    /\ UNCHANGED <<vals, commands, altIdx, highestMatch>>
    /\ UNCHANGED matchVars

\* one iteration of the inner loop: commands[commandIdx].match(alternative)
CmdStep ==
    /\ pc = "cmd"
    /\ commandIdx < Len(commands)
    /\ LET alternative == vals[altIdx + 1]
           m == match(commands[commandIdx + 1], alternative)
           adopt == /\ m # None
                    /\ \/ highestMatch = None
                       \/ ReplacesMatch(highestMatch, alternative)
       IN  /\ highestMatch' = IF adopt THEN m ELSE highestMatch
           /\ highestAlternative' =
                  IF adopt THEN Some(alternative) ELSE highestAlternative
    /\ commandIdx' = commandIdx + 1
    /\ UNCHANGED <<vals, commands, altIdx, pc>>
    /\ UNCHANGED matchVars

\* the inner loop ends: ++altIdx
NextAlt ==
    /\ pc = "cmd"
    /\ commandIdx >= Len(commands)
    /\ altIdx' = altIdx + 1
    /\ pc' = "alt"
    /\ UNCHANGED <<vals, commands, commandIdx, highestAlternative, highestMatch>>
    /\ UNCHANGED matchVars

\* return [highestMatch, highestAlternative]
Return ==
    /\ pc = "alt"
    /\ altIdx >= Len(vals)
    /\ pc' = "done"
    /\ UNCHANGED <<vals, commands, altIdx, commandIdx, highestAlternative,
                   highestMatch>>
    /\ UNCHANGED matchVars

Next == AltStep \/ CmdStep \/ NextAlt \/ Return

Spec == Init /\ [][Next]_vars

\* ---- properties of parse ----
\* the (alternative, command) pairs that match, by position in vals and commands
Matches(i, j) == match(commands[j], vals[i]) # None
MatchedAlts == {i \in 1..Len(vals) : \E j \in 1..Len(commands) : Matches(i, j)}
MatchingPairs ==
    {p \in (1..Len(vals)) \X (1..Len(commands)) : Matches(p[1], p[2])}
IsMaxConfidence(c, S) ==
    /\ \E i \in S : vals[i].confidence = c
    /\ \A i \in S : vals[i].confidence <= c
\* p is visited before q by the nested loops
Before(p, q) == p[1] < q[1] \/ (p[1] = q[1] /\ p[2] < q[2])

\* C1: parse returns a match iff some (alternative, command) pair matches, and
\* the returned confidence is the maximum confidence over the alternatives
\* matched by at least one command; 'open settings' below 'close settings'
\* with commands OPEN, CLOSE yields CLOSE with the second alternative.
C1_ParseSelectsBestMatch ==
    pc = "done" =>
        /\ (highestMatch # None) <=> (MatchedAlts # {})
        /\ highestMatch # None =>
               IsMaxConfidence(Get(highestMatch).confidence, MatchedAlts)
        /\ ( /\ commands = <<OPEN, CLOSE>>
             /\ Len(vals) = 2
             /\ vals[1].transcript = T_openSettings
             /\ vals[2].transcript = T_closeSettings
             /\ vals[1].confidence < vals[2].confidence )
           => /\ highestMatch =
                     Some([id |-> "CLOSE", confidence |-> vals[2].confidence])
              /\ highestAlternative = Some(vals[2])

C1_Witness ==
    /\ pc = "done"
    /\ commands = <<OPEN, CLOSE>>
    /\ Len(vals) = 2
    /\ vals[1].transcript = T_openSettings
    /\ vals[2].transcript = T_closeSettings
    /\ vals[1].confidence < vals[2].confidence
    /\ highestMatch = Some([id |-> "CLOSE", confidence |-> vals[2].confidence])

\* C2: when no command matches any alternative parse returns (none, A) with A
\* the highest-confidence alternative, the earliest among equal maxima; with
\* no alternatives it returns (none, none) whatever the commands.
C2_FallbackIsEarliestMaximum ==
    pc = "done" =>
        /\ vals = <<>> => highestMatch = None /\ highestAlternative = None
        /\ (MatchedAlts = {} /\ vals # <<>>) =>
               /\ highestMatch = None
               /\ \E k \in 1..Len(vals) :
                      /\ IsMaxConfidence(vals[k].confidence, 1..Len(vals))
                      /\ \A i \in 1..(k - 1) : vals[i].confidence < vals[k].confidence
                      /\ highestAlternative = Some(vals[k])

C2_Witness ==
    /\ pc = "done"
    /\ MatchedAlts = {}
    /\ Len(commands) > 0
    /\ \E i, k \in 1..Len(vals) :
           /\ 1 < i /\ i < k
           /\ vals[i].confidence = vals[k].confidence
           /\ vals[i].transcript # vals[k].transcript
           /\ vals[1].confidence < vals[i].confidence
           /\ highestAlternative = Some(vals[i])

\* C3: a match of equal confidence never replaces the selected one; the
\* returned id and alternative are those of the first visited pair among the
\* matching pairs of maximal confidence (alternatives in input order, commands
\* in registration order within an alternative).
C3_FirstSeenWinsTies ==
    /\ [](pc = "done" /\ highestMatch # None =>
            \E p \in MatchingPairs :
                /\ IsMaxConfidence(vals[p[1]].confidence, MatchedAlts)
                /\ \A q \in MatchingPairs :
                       vals[q[1]].confidence = vals[p[1]].confidence /\ q # p
                           => Before(p, q)
                /\ highestMatch = Some([id |-> commands[p[2]].id,
                                        confidence |-> vals[p[1]].confidence])
                /\ highestAlternative = Some(vals[p[1]]))
    /\ [][(highestMatch # None /\
           <<highestMatch, highestAlternative>>' # <<highestMatch, highestAlternative>>)
             => Get(highestMatch').confidence > Get(highestMatch).confidence]_vars

C3_Witness ==
    /\ pc = "done"
    /\ highestMatch # None
    /\ \E p, q \in MatchingPairs :
           /\ Before(p, q)
           /\ p[1] # q[1]
           /\ vals[p[1]].confidence = Get(highestMatch).confidence
           /\ vals[q[1]].confidence = Get(highestMatch).confidence
           /\ commands[p[2]].id # commands[q[2]].id
           /\ vals[p[1]].transcript # vals[q[1]].transcript
           /\ Matches(p[1], 1) /\ Matches(p[1], 2)
           /\ highestMatch = Some([id |-> commands[1].id,
                                   confidence |-> vals[p[1]].confidence])

\* C10: once a match has been found the selected alternative is the one that
\* produced the selected match (equal confidences, and the match's command
\* matches it), and scanning an alternative that no command matches changes
\* neither selection, however high its confidence.
C10_SelectionStaysPaired ==
    /\ [](highestMatch # None =>
            /\ highestAlternative # None
            /\ Get(highestMatch).confidence = Get(highestAlternative).confidence
            /\ \E j \in 1..Len(commands) :
                   /\ commands[j].id = Get(highestMatch).id
                   /\ match(commands[j], Get(highestAlternative)) = highestMatch)
    /\ [][(highestMatch # None /\ altIdx < Len(vals) /\ (altIdx + 1) \notin MatchedAlts)
             => UNCHANGED <<highestMatch, highestAlternative>>]_vars

C10_Witness ==
    /\ pc = "cmd"
    /\ commandIdx = Len(commands)
    /\ highestMatch # None
    /\ (altIdx + 1) \notin MatchedAlts
    /\ vals[altIdx + 1].confidence > Get(highestMatch).confidence
    /\ Get(highestAlternative) # vals[altIdx + 1]

\* ---- properties of FuzzyCommand.match and normalizeInput ----
IsListedVerb(token) == token \in Range(ctor.verbs)
IsListedAttribute(token) == token \in Range(ctor.validAttributes)
OnlySeparators(val) == \A i \in 1..Len(val) : val[i] \in Separators
Permute(toks, f) == [i \in 1..Len(toks) |-> toks[f[i]]]

\* C4: a result of match carries the id the command was constructed with and
\* exactly the confidence of the alternative.
C4_ResultCopiesIdAndConfidence ==
    (mpc # "start" /\ result # None) =>
        /\ Get(result).id = ctor.id
        /\ Get(result).confidence = input.confidence

C4_Witness ==
    /\ mpc = "matched"
    /\ result # None
    /\ ctor.id = "CLOSE"
    /\ input.confidence = 0
    /\ Len(tokens) >= 2

\* C5: match returns a result only when some token is an element of the verbs
\* list and some token is an element of the validAttributes list given at
\* construction; no other token is recognised.
C5_OnlyListedTokensMatch ==
    (mpc # "start" /\ result # None) =>
        /\ \E i \in 1..Len(tokens) : IsListedVerb(tokens[i])
        /\ \E j \in 1..Len(tokens) : IsListedAttribute(tokens[j])

\* C6: with verbFirst = true, match returns a result iff a verb token stands at
\* some position i and an attribute token at some position j >= i; with
\* verbs = [open], attributes = [settings], 'please open settings now' matches
\* and 'settings open' does not.
C6_VerbFirstNeedsAttributeAtOrAfterVerb ==
    (mpc # "start" /\ ctor.verbFirst) =>
        /\ (result # None) <=>
               \E i, j \in 1..Len(tokens) :
                   i <= j /\ IsListedVerb(tokens[i]) /\ IsListedAttribute(tokens[j])
        /\ (ctor.verbs = <<W_open>> /\ ctor.validAttributes = <<W_settings>>) =>
               /\ input.transcript = T_pleaseOpenSettingsNow => result # None
               /\ input.transcript = T_settingsOpen => result = None

\* C7: with verbFirst = false, match returns a result iff the tokens contain
\* some verb token and some attribute token at any positions, and the outcome
\* is the same for every permutation of the tokens.
C7_OrderIndependentWithoutVerbFirst ==
    (mpc # "start" /\ ~ctor.verbFirst) =>
        /\ (result # None) <=>
               /\ \E i \in 1..Len(tokens) : IsListedVerb(tokens[i])
               /\ \E j \in 1..Len(tokens) : IsListedAttribute(tokens[j])
        /\ \A f \in Permutations(1..Len(tokens)) :
               matchTokens(cmd, input, Permute(tokens, f)) = result
        /\ (ctor.verbs = <<W_open>> /\ ctor.validAttributes = <<W_settings>>
              /\ input.transcript = T_settingsOpen) => result # None

\* C8: a transcript that is empty or made of separator characters only never
\* matches, whatever the command's verbs, validAttributes and verbFirst.
C8_EmptyTranscriptNeverMatches ==
    (mpc # "start" /\ OnlySeparators(input.transcript)) => result = None

\* C9: normalizeInput is idempotent: the tokens joined with single spaces
\* normalize to the same token sequence.
C9_NormalizationIdempotent ==
    mpc = "renormalized" => retokens = tokens

C9_Witness ==
    /\ mpc = "renormalized"
    /\ Len(tokens) = 2
    /\ Len(input.transcript) = MaxStrLen
    /\ Join(tokens) # input.transcript
    /\ retokens = tokens

\* ---- the shape of normalizeInput's result ----
Whitespace == {" ", "\t"}
OnlyWhitespace(val) == \A i \in 1..Len(val) : val[i] \in Whitespace
NoEmptyToken(toks) == \A i \in 1..Len(toks) : toks[i] # <<>>
NoSeparatorInTokens(toks) ==
    \A i \in 1..Len(toks) : \A k \in 1..Len(toks[i]) : toks[i][k] \notin Separators

\* C11 as stated: an empty or whitespace-only string normalizes to [""], and
\* for every other input no token is empty and no token holds a separator.
C11_WhitespaceOnlyGivesOneEmptyToken ==
    mpc # "start" =>
        /\ OnlyWhitespace(input.transcript) => tokens = <<W_empty>>
        /\ ~OnlyWhitespace(input.transcript) =>
               NoEmptyToken(tokens) /\ NoSeparatorInTokens(tokens)

\* C11 amended: a string that is empty or made only of the characters space,
\* comma, semicolon, period and colon normalizes to [""], never to the empty
\* sequence; for every other input no token is empty and no token holds one
\* of those characters.
C11_SeparatorOnlyGivesOneEmptyToken ==
    mpc # "start" =>
        /\ tokens # <<>>
        /\ OnlySeparators(input.transcript) => tokens = <<W_empty>>
        /\ ~OnlySeparators(input.transcript) =>
               NoEmptyToken(tokens) /\ NoSeparatorInTokens(tokens)

C11_Witness ==
    /\ mpc = "matched"
    /\ Len(input.transcript) >= 2
    /\ OnlySeparators(input.transcript)
    /\ ~OnlyWhitespace(input.transcript)
    /\ tokens = <<W_empty>>

====
